---- MODULE Spec2Model ----
(***************************************************************************)
(* FinShadow threat-intelligence core: ingestion (fetch, normalize,        *)
(* deduplicate, persist) and rule-based risk scoring, modelled from        *)
(* server/ingest/*.ts and server/risk/engine.ts as given in the MVP        *)
(* architecture plan, and from shared/schema.ts.                           *)
(***************************************************************************)
EXTENDS Integers, Sequences, FiniteSets, TLC

(***************************************************************************)
(* Bounds of the model.                                                    *)
(***************************************************************************)
\* the wall clock is read by `new Date()`; it counts hours and advances up
\* to MaxClock
MaxClock == 1
\* invocations of runAllIngestions over the life of the model
MaxRuns == 2
\* largest age, in hours, of a record handed to computeRisk (125 days)
MaxAgeHours == 3000
\* runs of the hourly risk-engine task over the life of the model
MaxEngineRuns == 2
\* calls of POST /api/alerts over the life of the model
MaxAlerts == 2
\* largest number of rows discovered in the last 24 hours that detectSpikes
\* is run over
MaxToday == 17
\* largest distance, in hours, between two calls of computeRisk and between
\* the discoveredAt of two records compared
MaxGap == 2

(***************************************************************************)
(* Values.                                                                 *)
(***************************************************************************)
\* a property absent from the JSON payload
Undefined == "<undefined>"
\* an absent timestamp
NoTime == 0 - 1

Max(a, b) == IF a >= b THEN a ELSE b
Min(a, b) == IF a <= b THEN a ELSE b

\* the two ingestion runs that can be in flight together
Slots == {1, 2}

\* the two runs of the risk-engine task that can be in flight together
EngineSlots == {1, 2}

\* a null reference (the ids of rows are their positions, from 1 on)
Null == 0

\* distances in hours between two calls, or two records, that are compared:
\* a few hours, a day, a month
AgeGaps == (1..MaxGap) \cup {24, 720}

(***************************************************************************)
(* server/ingest/sources.ts                                                *)
(***************************************************************************)
INGEST_SOURCES ==
    << [id |-> "otx-public", name |-> "AlienVault OTX - Fintech Threats", type |-> "otx"],
       [id |-> "misp-export", name |-> "MISP Public Feeds", type |-> "stix"] >>

\* a feed of a format that ingestFromSource has no branch for ("misp" and
\* "json" are members of SourceConfig.type)
JsonSource == [id |-> "json-feed", name |-> "JSON Feed", type |-> "json"]

(***************************************************************************)
(* Upstream feed items.  A pulse is what the OTX search API returns in     *)
(* `results`; absent properties are Undefined / NoTime.                    *)
(***************************************************************************)
PulseA ==
    [ id |-> "p1", name |-> "bank trojan", description |-> "steals otp",
      indicators |-> << [type |-> "IPv4", indicator |-> "1.2.3.4"] >>,
      tags |-> << "bank", "apt" >>, TLP |-> "red",
      created |-> 0, modified |-> 1 ]

\* the same threat seen again with other metadata (same title, description
\* and indicators as PulseA, hence the same content hash)
PulseA2 ==
    [ id |-> "p7", name |-> "bank trojan", description |-> "steals otp",
      indicators |-> << [type |-> "IPv4", indicator |-> "1.2.3.4"] >>,
      tags |-> << "apt" >>, TLP |-> "green",
      created |-> NoTime, modified |-> NoTime ]

PulseB ==
    [ id |-> "p2", name |-> Undefined, description |-> Undefined,
      indicators |-> << >>,
      tags |-> << >>, TLP |-> Undefined,
      created |-> NoTime, modified |-> NoTime ]

\* a threat with two indicators
PulseC ==
    [ id |-> "p3", name |-> "card skimmer", description |-> "c2 hosts",
      indicators |-> << [type |-> "IPv4", indicator |-> "5.6.7.8"],
                        [type |-> "IPv4", indicator |-> "9.9.9.9"] >>,
      tags |-> << >>, TLP |-> "amber",
      created |-> NoTime, modified |-> NoTime ]

\* the same threat as PulseC, its indicators listed in the other order
PulseC2 ==
    [PulseC EXCEPT !.id = "p4",
                   !.indicators = << PulseC.indicators[2], PulseC.indicators[1] >>]

\* a pulse with a TLP outside red / amber / green, no description, and a
\* `modified` two days back but no `created`
PulseD ==
    [ id |-> "p5", name |-> "wire fraud", description |-> Undefined,
      indicators |-> << >>,
      tags |-> << >>, TLP |-> "white",
      created |-> NoTime, modified |-> 0 - 48 ]

\* another threat: the title of PulseD, the description being the literal
\* text "undefined"
PulseD2 ==
    [ id |-> "p6", name |-> "wire fraud", description |-> "undefined",
      indicators |-> << >>,
      tags |-> << >>, TLP |-> "red",
      created |-> NoTime, modified |-> NoTime ]

\* two threats whose titles and descriptions differ in where a '|' stands
PulseP1 ==
    [ id |-> "p8", name |-> "a|b", description |-> "c",
      indicators |-> << >>,
      tags |-> << >>, TLP |-> "green",
      created |-> NoTime, modified |-> NoTime ]

PulseP2 ==
    [ id |-> "p9", name |-> "a", description |-> "b|c",
      indicators |-> << >>,
      tags |-> << >>, TLP |-> "green",
      created |-> NoTime, modified |-> NoTime ]

\* a critical, fintech-related threat with six indicators
PulseR ==
    [ id |-> "p10", name |-> "swift heist", description |-> "payment fraud",
      indicators |-> [i \in 1..6 |-> [type |-> "domain",
                                      indicator |-> "h" \o ToString(i) \o ".example"]],
      tags |-> << >>, TLP |-> "red",
      created |-> NoTime, modified |-> NoTime ]

Pulses ==
    {PulseA, PulseA2, PulseB, PulseC, PulseC2, PulseD, PulseD2, PulseP1, PulseP2, PulseR}

\* the payloads a feed can answer with ({ results: [...pulses] } for OTX),
\* per position of the feed in INGEST_SOURCES
Payloads(src) ==
    IF src = 1
    THEN { << PulseA, PulseB >>, << PulseA2, PulseA >> }
    ELSE { << PulseB >> }

\* what the feeds answer with when the first one lists a threat twice, the
\* indicators in one order and in the other
ReorderedPayloads(src) ==
    IF src = 1
    THEN { << PulseC, PulseC2 >>, << PulseC2, PulseB >> }
    ELSE { << PulseB >> }

\* what the feeds answer with when the first one lists pulses with an
\* unknown TLP, with no TLP, with no description, with a '|' in the title
AmbiguousPayloads(src) ==
    IF src = 1
    THEN { << PulseD, PulseD2, PulseB >>, << PulseP1, PulseP2 >> }
    ELSE { << PulseB >> }

(***************************************************************************)
(* server/ingest/normalizer.ts                                             *)
(***************************************************************************)
\* String(x) inside a template literal: undefined prints as "undefined"
TemplateStr(x) == IF x = Undefined THEN "undefined" ELSE x

RECURSIVE JoinJSON(_)
\* the elements of JSON.stringify(indicators), comma separated
JoinJSON(inds) ==
    IF inds = << >> THEN ""
    ELSE LET one == "{\"type\":\"" \o inds[1].type \o "\",\"value\":\"" \o inds[1].value \o "\"}"
         IN  IF Len(inds) = 1 THEN one ELSE one \o "," \o JoinJSON(Tail(inds))

JSONstringify(inds) == "[" \o JoinJSON(inds) \o "]"

\* crypto.createHash("sha256").update(content).digest("hex"): a digest is
\* taken to identify its content
Sha256(content) == << "sha256", content >>

\* variant: the digest covers the timestamps too
computeContentHash_WithTimestamps(threat) ==
    Sha256(TemplateStr(threat.title) \o "|" \o TemplateStr(threat.description)
           \o "|" \o JSONstringify(threat.indicators)
           \o "|" \o ToString(threat.discoveredAt))

computeContentHash(threat) ==
    Sha256(TemplateStr(threat.title) \o "|" \o TemplateStr(threat.description)
           \o "|" \o JSONstringify(threat.indicators))

inferThreatType(indicators) ==
    IF Len(indicators) = 0 THEN "malware"
    ELSE LET first == indicators[1]
         IN  IF first.type = "IPv4" THEN "ip"
             ELSE IF first.type = "domain" THEN "domain"
             ELSE IF first.type = "hash" THEN "hash"
             ELSE IF first.type = "URL" THEN "malicious_url"
             ELSE "malware"

mapOTXSeverity(tlp) ==
    IF tlp = Undefined \/ tlp = "" THEN "medium"
    ELSE IF tlp = "red" THEN "critical"
    ELSE IF tlp = "amber" THEN "high"
    ELSE IF tlp = "green" THEN "low"
    ELSE "info"

\* s.includes(kw)
Includes(s, kw) ==
    \E i \in 1..(Len(s) - Len(kw) + 1) : SubSeq(s, i, i + Len(kw) - 1) = kw

UpperCaseLetters == "ABCDEFGHIJKLMNOPQRSTUVWXYZ"
LowerCaseLetters == "abcdefghijklmnopqrstuvwxyz"

LowerOf ==
    [c \in {SubSeq(UpperCaseLetters, i, i) : i \in 1..26} |->
        LET i == CHOOSE k \in 1..26 : SubSeq(UpperCaseLetters, k, k) = c
        IN  SubSeq(LowerCaseLetters, i, i)]

LowerChar(c) == IF c \in DOMAIN LowerOf THEN LowerOf[c] ELSE c

RECURSIVE toLowerCase(_)
\* s.toLowerCase()
toLowerCase(s) ==
    IF Len(s) = 0 THEN ""
    ELSE LowerChar(SubSeq(s, 1, 1)) \o toLowerCase(SubSeq(s, 2, Len(s)))

IsFintechTag(t) ==
    LET lower == toLowerCase(t)
    IN  Includes(lower, "fintech") \/ Includes(lower, "finance") \/ Includes(lower, "bank")

FilterTags(tags) == SelectSeq(tags, IsFintechTag)

\* normalizeOTXPulse(pulse), with `new Date()` read as nowDate
normalizeOTXPulse(pulse, nowDate) ==
    LET indicators == [i \in 1..Len(pulse.indicators) |->
                          [type |-> pulse.indicators[i].type,
                           value |-> pulse.indicators[i].indicator]]
        fintechTags == FilterTags(pulse.tags)
        threat ==
            [ source |-> "AlienVault OTX",
              sourceId |-> pulse.id,
              title |-> IF pulse.name = Undefined \/ pulse.name = ""
                        THEN "Unnamed OTX Pulse" ELSE pulse.name,
              description |-> pulse.description,
              type |-> inferThreatType(pulse.indicators),
              severity |-> mapOTXSeverity(pulse.TLP),
              indicators |-> indicators,
              tags |-> IF Len(fintechTags) > 0 THEN fintechTags ELSE pulse.tags,
              firstSeen |-> IF pulse.created = NoTime THEN nowDate ELSE pulse.created,
              lastSeen |-> IF pulse.modified = NoTime THEN nowDate ELSE pulse.modified,
              discoveredAt |-> nowDate ]
    IN  [ source |-> threat.source, sourceId |-> threat.sourceId,
          title |-> threat.title, description |-> threat.description,
          type |-> threat.type, severity |-> threat.severity,
          indicators |-> threat.indicators, tags |-> threat.tags,
          firstSeen |-> threat.firstSeen, lastSeen |-> threat.lastSeen,
          discoveredAt |-> threat.discoveredAt,
          contentHash |-> computeContentHash(threat) ]

\* parseSTIX(data): the STIX normalizer is not part of the plan's code; it is
\* taken to map a feed item to the canonical record as the OTX normalizer does
parseSTIX(data, nowDate) ==
    [i \in 1..Len(data) |-> normalizeOTXPulse(data[i], nowDate)]

\* ingestFromSource: "Parse based on source type"
Normalize(sourceConfig, data, nowDate) ==
    IF sourceConfig.type = "otx"
    THEN [i \in 1..Len(data) |-> normalizeOTXPulse(data[i], nowDate)]
    ELSE IF sourceConfig.type = "stix"
    THEN parseSTIX(data, nowDate)
    ELSE << >>

(***************************************************************************)
(* server/risk/engine.ts: computeRisk                                      *)
(***************************************************************************)
\* 1000 * 60 * 60 * 24 ms, in clock units
HoursPerDay == 24
\* if (daysOld > 30)
DecayAfterDays == 30
\* (daysOld - 30) / 180
DecaySpanDays == 180

FINTECH_KEYWORDS == << "fintech", "bank", "payment", "credit", "atm", "swift", "wire" >>

\* severityScores[intelRecord.severity] || 0
SeverityBase(severity) ==
    CASE severity = "critical" -> 80
      [] severity = "high" -> 60
      [] severity = "medium" -> 40
      [] severity = "low" -> 20
      [] severity = "info" -> 5
      [] OTHER -> 0

\* Rule 2: some keyword occurs in the title, the description or a tag
isFintechRelated(intelRecord) ==
    LET title == toLowerCase(intelRecord.title)
        description == IF intelRecord.description = Undefined THEN Undefined
                       ELSE toLowerCase(intelRecord.description)
        tags == [t \in 1..Len(intelRecord.tags) |-> toLowerCase(intelRecord.tags[t])]
    IN  \E k \in 1..Len(FINTECH_KEYWORDS) :
            LET kw == FINTECH_KEYWORDS[k]
            IN  \/ Includes(title, kw)
                \/ description # Undefined /\ Includes(description, kw)
                \/ \E t \in 1..Len(tags) : Includes(tags[t], kw)

\* a JSON value that is not a string (the tags column is json: nothing
\* constrains what its array holds)
JsonNumber == "<number>"

\* (intelRecord.tags || []).some(t => t.toLowerCase().includes(kw)) throws a
\* TypeError: it reaches a tag that is not a string before a tag that matches
TagsThrow(tags, kw) ==
    \E t \in 1..Len(tags) :
        /\ tags[t] = JsonNumber
        /\ \A u \in 1..(t - 1) :
              tags[u] = JsonNumber \/ ~Includes(toLowerCase(tags[u]), kw)

\* kw occurs in the title or the description: the tags are not looked at
InTitleOrDescription(intelRecord, kw) ==
    \/ Includes(toLowerCase(intelRecord.title), kw)
    \/ /\ intelRecord.description # Undefined
       /\ Includes(toLowerCase(intelRecord.description), kw)

\* computeRisk(intelRecord) rejects: FINTECH_KEYWORDS.some(...) gets to a
\* keyword, no earlier keyword having matched, for which the scan of the
\* tags throws
computeRiskThrows(intelRecord) ==
    \E k \in 1..Len(FINTECH_KEYWORDS) :
        /\ TagsThrow(intelRecord.tags, FINTECH_KEYWORDS[k])
        /\ ~InTitleOrDescription(intelRecord, FINTECH_KEYWORDS[k])
        /\ \A j \in 1..(k - 1) :
              /\ ~InTitleOrDescription(intelRecord, FINTECH_KEYWORDS[j])
              /\ \A t \in 1..Len(intelRecord.tags) :
                    /\ intelRecord.tags[t] # JsonNumber
                    /\ ~Includes(toLowerCase(intelRecord.tags[t]), FINTECH_KEYWORDS[j])

\* Scores are fractions over ScoreDen once the decay factor is applied:
\* decayFactor = DecayNum(ageHours) / ScoreDen
ScoreDen == DecaySpanDays * HoursPerDay

\* variant: the factor grows again once it has reached its floor
DecayNum_ReboundsAtFloor(ageHours) ==
    LET linear == ScoreDen - (ageHours - DecayAfterDays * HoursPerDay)
    IN  IF linear < ScoreDen \div 2 THEN ScoreDen ELSE linear

\* Math.max(0.5, 1 - (daysOld - 30) / 180), times ScoreDen
DecayNum(ageHours) ==
    Max(ScoreDen \div 2, ScoreDen - (ageHours - DecayAfterDays * HoursPerDay))

\* variant: the upper clamp is missing
Clamp_NoUpperBound(totalNum) == Max(0, totalNum)

\* Math.min(100, Math.max(0, totalScore)), on numerators over ScoreDen
Clamp(totalNum) == Min(100 * ScoreDen, Max(0, totalNum))

\* Math.round(num / den) and (num / den).toFixed(0), for num >= 0
RoundDiv(num, den) == (2 * num + den) \div (2 * den)

\* "Map score to severity": finalScore >= 85 ? ... on the clamped total
SeverityOf(finalNum) ==
    IF finalNum >= 85 * ScoreDen THEN "critical"
    ELSE IF finalNum >= 70 * ScoreDen THEN "high"
    ELSE IF finalNum >= 40 * ScoreDen THEN "medium"
    ELSE "low"

\* variant: the indicator bonus is added before the decay and decays with
\* the rest
computeRisk_BonusBeforeDecay(intelRecord, now) ==
    LET base == SeverityBase(intelRecord.severity)
        fintech == isFintechRelated(intelRecord)
        afterRule2 == base + (IF fintech THEN 20 ELSE 0)
        indicatorCount == Len(intelRecord.indicators)
        rich == indicatorCount > 5
        afterRule4 == afterRule2 + (IF rich THEN 10 ELSE 0)
        ageHours == now - intelRecord.discoveredAt
        decays == ageHours > DecayAfterDays * HoursPerDay
        decayNum == IF decays THEN DecayNum(ageHours) ELSE ScoreDen
        penaltyNum == afterRule2 * (ScoreDen - decayNum)
        finalNum == Clamp(afterRule4 * decayNum)
    IN  [ threatIntelId |-> intelRecord.id,
          score |-> RoundDiv(finalNum, ScoreDen),
          severity |-> SeverityOf(finalNum),
          rulesFired |->
              << "severity_weighted" >>
              \o (IF fintech THEN << "fintech_relevance" >> ELSE << >>)
              \o (IF decays THEN << "recency_decay" >> ELSE << >>)
              \o (IF rich THEN << "high_indicator_count" >> ELSE << >>),
          reasoning |->
              << "Severity '" \o intelRecord.severity \o "' base score: +" \o ToString(base) >>
              \o (IF fintech THEN << "Fintech-related indicators detected: +20" >> ELSE << >>)
              \o (IF decays
                  THEN << "Discovered " \o ToString(RoundDiv(ageHours, HoursPerDay))
                          \o " days ago: " \o ToString(RoundDiv(penaltyNum, ScoreDen))
                          \o " recency penalty" >>
                  ELSE << >>)
              \o (IF rich THEN << ToString(indicatorCount) \o " indicators detected: +10" >>
                  ELSE << >>) ]

\* computeRisk(intelRecord), with `new Date()` read as now
computeRisk(intelRecord, now) ==
    LET base == SeverityBase(intelRecord.severity)
        fintech == isFintechRelated(intelRecord)
        afterRule2 == base + (IF fintech THEN 20 ELSE 0)
        ageHours == now - intelRecord.discoveredAt
        decays == ageHours > DecayAfterDays * HoursPerDay
        decayNum == IF decays THEN DecayNum(ageHours) ELSE ScoreDen
        penaltyNum == afterRule2 * (ScoreDen - decayNum)
        afterRule3 == afterRule2 * decayNum
        indicatorCount == Len(intelRecord.indicators)
        rich == indicatorCount > 5
        afterRule4 == afterRule3 + (IF rich THEN 10 * ScoreDen ELSE 0)
        finalNum == Clamp(afterRule4)
    IN  [ threatIntelId |-> intelRecord.id,
          score |-> RoundDiv(finalNum, ScoreDen),
          severity |-> SeverityOf(finalNum),
          rulesFired |->
              << "severity_weighted" >>
              \o (IF fintech THEN << "fintech_relevance" >> ELSE << >>)
              \o (IF decays THEN << "recency_decay" >> ELSE << >>)
              \o (IF rich THEN << "high_indicator_count" >> ELSE << >>),
          reasoning |->
              << "Severity '" \o intelRecord.severity \o "' base score: +" \o ToString(base) >>
              \o (IF fintech THEN << "Fintech-related indicators detected: +20" >> ELSE << >>)
              \o (IF decays
                  THEN << "Discovered " \o ToString(RoundDiv(ageHours, HoursPerDay))
                          \o " days ago: " \o ToString(RoundDiv(penaltyNum, ScoreDen))
                          \o " recency penalty" >>
                  ELSE << >>)
              \o (IF rich THEN << ToString(indicatorCount) \o " indicators detected: +10" >>
                  ELSE << >>) ]

(***************************************************************************)
(* State.                                                                  *)
(***************************************************************************)
VARIABLES
    booted,         \* initializeIngest() has run: the cron task is scheduled
    registry,       \* the source registry the ingest module was loaded with
    storeUp,        \* the database answers (FALSE: every call to it is rejected)
    silent,         \* the feeds, by position, that accept a request and never answer
    upstream,       \* the payloads each feed answers with, per position in INGEST_SOURCES
    clock,          \* the wall clock read by `new Date()`
    threatIntel,    \* the threat_intel table: rows in insertion order, id = position
    runs,           \* the invocations of runAllIngestions in flight, per slot
    started,        \* number of invocations of runAllIngestions so far
    lastCompleted,  \* the log of the run that completed last
    raced,          \* hashes two runs were about to insert at the same time
    riskScores,     \* the risk_scores table, in insertion order
    baselineMetrics,\* the baseline_metrics table, in insertion order
    spikeLog,       \* metrics of the "SPIKE DETECTED" console lines
    engineRuns,     \* number of runs of the risk-engine task so far
    engine,         \* the runs of the risk-engine task in flight, per slot
    lastDetection,  \* what the detectSpikes run that completed last computed
    alerts,         \* the alerts table, in insertion order
    scoringInput,   \* a record handed to computeRisk on its own, and the time of the call
    scoringOutput,  \* what computeRisk returned for scoringInput
    scoringSecond   \* a second call of computeRisk: record, time of the call, result

ingestVars ==
    << booted, registry, storeUp, silent, upstream, threatIntel, runs, started,
       lastCompleted, raced >>
engineVars == << riskScores, baselineMetrics, spikeLog, engineRuns, engine, lastDetection, alerts >>
scorerVars == << scoringInput, scoringOutput, scoringSecond >>
vars == << clock, ingestVars, engineVars, scorerVars >>

NumSources == Len(registry)

\* what a run logs for one source, with what it fetched and counted
\*   outcome "ok":     "Ingested from <name>: <inserted> new, <duplicates> duplicates"
\*   outcome "failed": "Failed to ingest from <name>: <error>"
SourceEntry(run, outcome, err) ==
    [ src |-> run.src, outcome |-> outcome, error |-> err,
      fetchOk |-> run.fetchOk, fetched |-> run.fetched,
      items |-> Len(run.normalized),
      inserted |-> run.inserted, duplicates |-> run.duplicates,
      lostRaces |-> IF err = "duplicate_key" THEN 1 ELSE 0 ]

NoRun ==
    [ valid |-> FALSE, report |-> << >>, alone |-> FALSE,
      prevOk |-> FALSE, prevReport |-> << >>, lenAtStart |-> 0, lenAtEnd |-> 0 ]

IdleRun ==
    [ pc |-> "idle", src |-> 0, fetchOk |-> FALSE, fetched |-> << >>,
      normalized |-> << >>, idx |-> 0, inserted |-> 0, duplicates |-> 0,
      now |-> NoTime, report |-> << >>, alone |-> FALSE, lenAtStart |-> 0 ]

Active(r) == runs[r].pc \notin {"idle", "crashed"}

\* nothing handed to computeRisk / nothing returned yet
NoInput == [ record |-> [ id |-> 0, title |-> "", description |-> Undefined,
                          tags |-> << >>, severity |-> "", indicators |-> << >>,
                          discoveredAt |-> 0 ],
             now |-> NoTime ]
NoRisk == [ threatIntelId |-> 0, score |-> 0 - 1, severity |-> "",
            rulesFired |-> << >>, reasoning |-> << >> ]
NoSecond == [ record |-> NoInput.record, now |-> NoTime, risk |-> NoRisk ]

\* a slot of the risk-engine task with no run in it
IdleEngine ==
    [ pc |-> "idle", sevenDaysAgo |-> NoTime, computations |-> << >>, k |-> 0,
      baselineCount |-> 0, currentValue |-> 0, detected |-> << >>, alone |-> FALSE ]

NoDetection == [ valid |-> FALSE, alone |-> FALSE, detected |-> << >> ]

Init ==
    /\ booted = FALSE
    /\ registry = INGEST_SOURCES
    /\ storeUp = TRUE
    /\ silent = {}
    /\ upstream = [src \in 1..NumSources |-> Payloads(src)]
    /\ clock = 0
    /\ threatIntel = << >>
    /\ runs = [r \in Slots |-> IdleRun]
    /\ started = 0
    /\ lastCompleted = NoRun
    /\ raced = {}
    /\ riskScores = << >>
    /\ baselineMetrics = << >>
    /\ spikeLog = << >>
    /\ engineRuns = 0
    /\ engine = [e \in EngineSlots |-> IdleEngine]
    /\ lastDetection = NoDetection
    /\ alerts = << >>
    /\ scoringInput = NoInput
    /\ scoringOutput = NoRisk
    /\ scoringSecond = NoSecond

(***************************************************************************)
(* server/ingest/deduplicator.ts and the threat_intel table                *)
(***************************************************************************)
\* select id from threat_intel where content_hash = $1 limit 1
isDuplicate(table, contentHash) ==
    \E i \in 1..Len(table) : table[i].contentHash = contentHash

\* variant: the update also rewrites first_seen
updateLastSeen_TouchesFirstSeen(table, contentHash, now) ==
    [i \in 1..Len(table) |->
        IF table[i].contentHash = contentHash
        THEN [table[i] EXCEPT !.lastSeen = now, !.firstSeen = now]
        ELSE table[i]]

\* update threat_intel set last_seen = $now where content_hash = $1
updateLastSeen(table, contentHash, now) ==
    [i \in 1..Len(table) |->
        IF table[i].contentHash = contentHash
        THEN [table[i] EXCEPT !.lastSeen = now]
        ELSE table[i]]

\* variant: the column carries no unique constraint
UniqueViolation_NoConstraint(table, contentHash) == FALSE

\* content_hash varchar not null unique: the insert of a present hash is refused
UniqueViolation(table, contentHash) ==
    \E i \in 1..Len(table) : table[i].contentHash = contentHash

\* db.insert(threatIntel).values(threat), the constraint having passed; the
\* row gets a fresh id (gen_random_uuid()), here its position
InsertRow(table, threat) == Append(table, [id |-> Len(table) + 1] @@ threat)

(***************************************************************************)
(* server/ingest/index.ts                                                  *)
(***************************************************************************)
\* variant: the try block covers the fetch only
CaughtBySource_FetchOnly(err) == err = "fetch_error"

\* ingestFromSource wraps its whole body in try { } catch (error: any) { log }
CaughtBySource(err) == TRUE

\* variant: a failed source ends the cycle
NextSource_StopOnFailure(src, failed) == IF failed THEN NumSources + 1 ELSE src + 1

\* runAllIngestions: for (const source of INGEST_SOURCES) await ingestFromSource(source)
NextSource(src, failed) == src + 1

\* the run leaves ingestFromSource for its current source
EndSource(run, outcome, err) ==
    LET rep == Append(run.report, SourceEntry(run, outcome, err))
        nxt == NextSource(run.src, outcome = "failed")
    IN  [run EXCEPT !.pc = IF nxt > NumSources THEN "complete" ELSE "fetch",
                    !.src = nxt, !.report = rep,
                    !.fetchOk = FALSE, !.fetched = << >>, !.normalized = << >>,
                    !.idx = 0, !.inserted = 0, !.duplicates = 0, !.now = NoTime]

\* an error thrown inside ingestFromSource
Throw(run, err) ==
    IF CaughtBySource(err)
    THEN EndSource(run, "failed", err)
    ELSE [run EXCEPT !.pc = "crashed"]

\* the for loop over `normalized` moves to the next threat
Advance(run) ==
    IF run.idx + 1 > Len(run.normalized)
    THEN EndSource(run, "ok", "none")
    ELSE [run EXCEPT !.pc = "dedup", !.idx = run.idx + 1, !.now = NoTime]

\* the step of run r ends with run record `nr` and table `table`
Commit(r, nr, table) ==
    /\ threatIntel' = table
    /\ IF nr.pc = "complete"
       THEN /\ runs' = [runs EXCEPT ![r] = IdleRun]
            /\ lastCompleted' =
                 LET seq == nr.alone /\ lastCompleted.valid /\ lastCompleted.alone
                 IN  [ valid |-> TRUE, report |-> nr.report, alone |-> nr.alone,
                       prevOk |-> seq,
                       prevReport |-> IF seq THEN lastCompleted.report ELSE << >>,
                       lenAtStart |-> nr.lenAtStart, lenAtEnd |-> Len(table) ]
       ELSE /\ runs' = [runs EXCEPT ![r] = nr]
            /\ UNCHANGED lastCompleted

\* runAllIngestions() is called: nothing in the code holds it back while
\* another invocation is still running
StartRun ==
    \E r \in Slots :
        /\ runs[r].pc = "idle"
        /\ \A q \in Slots : q < r => runs[q].pc # "idle"
        /\ started < MaxRuns
        /\ started' = started + 1
        /\ LET others == \E q \in Slots : q # r /\ Active(q)
           IN  runs' = [q \in Slots |->
                   IF q = r
                   THEN [IdleRun EXCEPT !.pc = "fetch", !.src = 1,
                                        !.alone = ~others,
                                        !.lenAtStart = Len(threatIntel)]
                   ELSE [runs[q] EXCEPT !.alone = FALSE]]
        /\ UNCHANGED << clock, registry, storeUp, silent, upstream, threatIntel, lastCompleted,
                        raced, engineVars, scorerVars >>

\* initializeIngest(): scheduleIngestCron(), then one run on startup
initializeIngest ==
    /\ ~booted
    /\ booted' = TRUE
    /\ StartRun

\* cron.schedule("0 */6 * * *", runAllIngestions) fires
CronTick ==
    /\ booted
    /\ UNCHANGED booted
    /\ StartRun

\* POST /api/admin/ingest: await runAllIngestions()
ManualTrigger ==
    /\ booted
    /\ UNCHANGED booted
    /\ StartRun

\* await fetch(url) settles (the call sets no timeout and passes no abort
\* signal: it settles when the feed answers or the request fails);
\* !response.ok throws; await response.json(); normalize
Fetch(r) ==
    /\ runs[r].pc = "fetch"
    /\ runs[r].src \notin silent
    /\ \/ \E data \in upstream[runs[r].src] :
            LET run == [runs[r] EXCEPT
                           !.fetchOk = TRUE, !.fetched = data,
                           !.normalized = Normalize(registry[runs[r].src], data, clock),
                           !.idx = 1, !.inserted = 0, !.duplicates = 0]
            IN  Commit(r, IF Len(run.normalized) = 0
                          THEN EndSource(run, "ok", "none")
                          ELSE [run EXCEPT !.pc = "dedup"], threatIntel)
       \/ Commit(r, Throw(runs[r], "fetch_error"), threatIntel)
    /\ UNCHANGED << booted, registry, storeUp, silent, upstream, clock, started, raced, engineVars, scorerVars >>

\* const dup = await isDuplicate(threat.contentHash), or the call is
\* rejected; on a duplicate the update is issued with `new Date()`, otherwise
\* the insert is issued
CheckDuplicate(r) ==
    /\ runs[r].pc = "dedup"
    /\ LET threat == runs[r].normalized[runs[r].idx]
           dup == isDuplicate(threatIntel, threat.contentHash)
       IN  /\ Commit(r, IF ~storeUp THEN Throw(runs[r], "store_unreachable")
                        ELSE IF dup THEN [runs[r] EXCEPT !.pc = "update", !.now = clock]
                        ELSE [runs[r] EXCEPT !.pc = "insert"], threatIntel)
           /\ raced' = IF storeUp /\ ~dup /\ \E q \in Slots :
                                      /\ q # r
                                      /\ runs[q].pc = "insert"
                                      /\ runs[q].normalized[runs[q].idx].contentHash = threat.contentHash
                       THEN raced \cup {threat.contentHash}
                       ELSE raced
    /\ UNCHANGED << booted, registry, storeUp, silent, upstream, clock, started, engineVars, scorerVars >>

\* the database applies the update issued by updateLastSeen, or the call is
\* rejected; duplicates++
ApplyUpdate(r) ==
    /\ runs[r].pc = "update"
    /\ LET threat == runs[r].normalized[runs[r].idx]
       IN  IF ~storeUp
           THEN Commit(r, Throw(runs[r], "store_unreachable"), threatIntel)
           ELSE Commit(r, Advance([runs[r] EXCEPT !.duplicates = @ + 1]),
                       updateLastSeen(threatIntel, threat.contentHash, runs[r].now))
    /\ UNCHANGED << booted, registry, storeUp, silent, upstream, clock, started, raced, engineVars, scorerVars >>

\* the database applies the insert, or refuses it on the unique constraint,
\* or the call is rejected
ApplyInsert(r) ==
    /\ runs[r].pc = "insert"
    /\ LET threat == runs[r].normalized[runs[r].idx]
       IN  IF ~storeUp
           THEN Commit(r, Throw(runs[r], "store_unreachable"), threatIntel)
           ELSE IF UniqueViolation(threatIntel, threat.contentHash)
           THEN Commit(r, Throw(runs[r], "duplicate_key"), threatIntel)
           ELSE Commit(r, Advance([runs[r] EXCEPT !.inserted = @ + 1]),
                       InsertRow(threatIntel, threat))
    /\ UNCHANGED << booted, registry, storeUp, silent, upstream, clock, started, raced, engineVars, scorerVars >>

\* the database becomes unreachable
StoreFails ==
    /\ storeUp
    /\ storeUp' = FALSE
    /\ UNCHANGED << clock, booted, registry, silent, upstream, threatIntel, runs, started,
                    lastCompleted, raced, engineVars, scorerVars >>

\* the database is reachable again
StoreRecovers ==
    /\ ~storeUp
    /\ storeUp' = TRUE
    /\ UNCHANGED << clock, booted, registry, silent, upstream, threatIntel, runs, started,
                    lastCompleted, raced, engineVars, scorerVars >>

\* time passes
Tick ==
    /\ clock < MaxClock
    /\ clock' = clock + 1
    /\ UNCHANGED << ingestVars, engineVars, scorerVars >>

(***************************************************************************)
(* server/risk/engine.ts: computeAllRisks, detectSpikes; risk/scheduler.ts *)
(***************************************************************************)
\* variant: every row of the table is scored
ComputeRisks_NoWindow(table, now) ==
    [i \in 1..Len(table) |-> computeRisk(table[i], now)]

\* computeAllRisks(): the select of the recent rows at time `now` and the
\* loop of computeRisk over them
ComputeRisks(table, now) ==
    LET sevenDaysAgo == now - 7 * HoursPerDay
        Recent(row) == row.discoveredAt >= sevenDaysAgo
        recentIntel == SelectSeq(table, Recent)
    IN  [i \in 1..Len(recentIntel) |-> computeRisk(recentIntel[i], now)]

\* computeAllRisks() rejects: the loop over the recent rows has no try/catch,
\* so the first computeRisk that throws ends it
ComputeRisksThrows(table, now) ==
    LET sevenDaysAgo == now - 7 * HoursPerDay
        Recent(row) == row.discoveredAt >= sevenDaysAgo
        recentIntel == SelectSeq(table, Recent)
    IN  \E i \in 1..Len(recentIntel) : computeRiskThrows(recentIntel[i])

\* riskComputations.map(r => ({ ... })): the values of the batch insert
RiskScoreRows(riskComputations, now) ==
    [i \in 1..Len(riskComputations) |->
        LET r == riskComputations[i]
        IN  [ threatIntelId |-> r.threatIntelId, score |-> r.score,
              severity |-> r.severity, rulesFired |-> r.rulesFired,
              reasoning |-> r.reasoning, engineVersion |-> "1.0",
              computedAt |-> now, expiresAt |-> now + 7 * HoursPerDay ]]

\* computeAllRisks(): the rows appended to risk_scores at time `now`
NewRiskScores(table, now) == RiskScoreRows(ComputeRisks(table, now), now)

\* variant: a score replaces the score the record already has
InsertRiskScores_Overwrite(scores, rows) ==
    LET Kept(old) == \A i \in 1..Len(rows) : rows[i].threatIntelId # old.threatIntelId
        kept == SelectSeq(scores, Kept)
    IN  kept \o [i \in 1..Len(rows) |-> [id |-> Len(kept) + i] @@ rows[i]]

\* if (riskComputations.length > 0) await db.insert(riskScores).values(rows);
\* each row gets a fresh id (gen_random_uuid()), here its position
InsertRiskScores(scores, rows) ==
    scores \o [i \in 1..Len(rows) |-> [id |-> Len(scores) + i] @@ rows[i]]

\* detectSpikes(): const metrics = [...]
SpikeMetrics ==
    << [metric |-> "fintech_intel_count", windowDays |-> 30],
       [metric |-> "critical_severity_count", windowDays |-> 7] >>

\* baselineIntel.length: rows discovered before the window
BaselineCount(table, metricConfig, now) ==
    LET windowDate == now - metricConfig.windowDays * HoursPerDay
        Before(row) == row.discoveredAt < windowDate
    IN  Len(SelectSeq(table, Before))

\* todayIntel.length: rows discovered in the last 24 hours
CurrentValue(table, now) ==
    LET oneDayAgo == now - HoursPerDay
        Today(row) == row.discoveredAt >= oneDayAgo
    IN  Len(SelectSeq(table, Today))

\* variant: the comparison is not strict
IsSpike_NotStrict(currentValue, baselineCount, windowDays) ==
    currentValue * 2 * windowDays >= baselineCount * 3

\* currentValue > baselineValue * spikeThreshold, with baselineValue =
\* count / windowDays and spikeThreshold = 1.5 = 3 / 2
IsSpike(currentValue, baselineCount, windowDays) ==
    currentValue * 2 * windowDays > baselineCount * 3

\* (num / den).toString() stored in a decimal(_, 2) column: the number of
\* hundredths, rounded
ToDecimal2(num, den) == RoundDiv(100 * num, den)

\* variant: a plain insert into a table with no unique key
UpsertMetric_PlainInsert(metrics, metricConfig, baselineCount, currentValue, now) ==
    Append(metrics,
        [ metric |-> metricConfig.metric, windowDays |-> metricConfig.windowDays,
          baselineValue |-> ToDecimal2(baselineCount, metricConfig.windowDays),
          currentValue |-> ToDecimal2(currentValue, 1),
          spikeThreshold |-> ToDecimal2(3, 2),
          calculatedAt |-> now, updatedAt |-> now ])

\* insert ... on conflict (metric) do update set current_value, updated_at
UpsertMetric(metrics, metricConfig, baselineCount, currentValue, now) ==
    IF \E i \in 1..Len(metrics) : metrics[i].metric = metricConfig.metric
    THEN [i \in 1..Len(metrics) |->
            IF metrics[i].metric = metricConfig.metric
            THEN [metrics[i] EXCEPT !.currentValue = ToDecimal2(currentValue, 1),
                                    !.updatedAt = now]
            ELSE metrics[i]]
    ELSE Append(metrics,
            [ metric |-> metricConfig.metric, windowDays |-> metricConfig.windowDays,
              baselineValue |-> ToDecimal2(baselineCount, metricConfig.windowDays),
              currentValue |-> ToDecimal2(currentValue, 1),
              spikeThreshold |-> ToDecimal2(3, 2),
              calculatedAt |-> now, updatedAt |-> now ])

RECURSIVE DetectSpikesFrom(_, _, _, _)
\* the loop of detectSpikes from metric k on: << baseline_metrics, console lines >>
DetectSpikesFrom(k, state, table, now) ==
    IF k > Len(SpikeMetrics) THEN state
    ELSE LET cfg == SpikeMetrics[k]
             baselineCount == BaselineCount(table, cfg, now)
             currentValue == CurrentValue(table, now)
             metrics == UpsertMetric(state[1], cfg, baselineCount, currentValue, now)
             lines == IF IsSpike(currentValue, baselineCount, cfg.windowDays)
                      THEN Append(state[2], cfg.metric) ELSE state[2]
         IN  DetectSpikesFrom(k + 1, << metrics, lines >>, table, now)

\* cron.schedule("0 * * * *", ...): computeAllRisks(), then detectSpikes(),
\* as one step: a run of the task that nothing else interleaves with.  When
\* computeAllRisks() rejects, the catch of the callback logs "Risk engine
\* error" and the run is over: nothing was inserted, detectSpikes() is not
\* called
RiskEngineTick ==
    /\ engineRuns < MaxEngineRuns
    /\ \A e \in EngineSlots : engine[e].pc = "idle"
    /\ engineRuns' = engineRuns + 1
    /\ IF ComputeRisksThrows(threatIntel, clock)
       THEN UNCHANGED << riskScores, baselineMetrics, spikeLog, lastDetection >>
       ELSE /\ riskScores' = InsertRiskScores(riskScores, NewRiskScores(threatIntel, clock))
            /\ LET after == DetectSpikesFrom(1, << baselineMetrics, spikeLog >>,
                                             threatIntel, clock)
               IN  /\ baselineMetrics' = after[1]
                   /\ spikeLog' = after[2]
            /\ lastDetection' =
                 [ valid |-> TRUE, alone |-> TRUE,
                   detected |-> [k \in 1..Len(SpikeMetrics) |->
                                    << BaselineCount(threatIntel, SpikeMetrics[k], clock),
                                       CurrentValue(threatIntel, clock) >>] ]
    /\ UNCHANGED << clock, ingestVars, scorerVars, engine, alerts >>

(***************************************************************************)
(* The risk-engine task statement by statement: a run gives way to other   *)
(* callbacks at each await of a database call.                             *)
(***************************************************************************)
EngineActive(e) == engine[e].pc # "idle"

\* the cron callback fires: nothing in the code holds it back while an
\* earlier run of the task is still in flight
RiskEngineStart ==
    \E e \in EngineSlots :
        /\ engine[e].pc = "idle"
        /\ \A q \in EngineSlots : q < e => engine[q].pc # "idle"
        /\ engineRuns < MaxEngineRuns
        /\ engineRuns' = engineRuns + 1
        /\ LET others == \E q \in EngineSlots : q # e /\ EngineActive(q)
           IN  engine' = [q \in EngineSlots |->
                   IF q = e
                   THEN [IdleEngine EXCEPT !.pc = "select", !.alone = ~others]
                   ELSE [engine[q] EXCEPT !.alone = FALSE]]
        /\ UNCHANGED << clock, ingestVars, scorerVars, riskScores, baselineMetrics,
                        spikeLog, lastDetection, alerts >>

\* computeAllRisks(): the select of the recent rows is answered and the
\* loop of computeRisk runs over them; when a computeRisk throws, the catch
\* of the callback logs "Risk engine error" and the run is over
SelectRecentIntel(e) ==
    /\ engine[e].pc = "select"
    /\ LET riskComputations == ComputeRisks(threatIntel, clock)
       IN  engine' = [engine EXCEPT ![e] =
               IF ComputeRisksThrows(threatIntel, clock)
               THEN IdleEngine
               ELSE IF Len(riskComputations) > 0
               THEN [@ EXCEPT !.pc = "insertScores",
                              !.sevenDaysAgo = clock - 7 * HoursPerDay,
                              !.computations = riskComputations]
               ELSE [@ EXCEPT !.pc = "baseline", !.k = 1]]
    /\ UNCHANGED << clock, ingestVars, scorerVars, riskScores, baselineMetrics,
                    spikeLog, engineRuns, lastDetection, alerts >>

\* computeAllRisks(): the batch insert is applied
InsertScores(e) ==
    /\ engine[e].pc = "insertScores"
    /\ riskScores' = InsertRiskScores(riskScores,
                                      RiskScoreRows(engine[e].computations, clock))
    /\ engine' = [engine EXCEPT ![e] = [@ EXCEPT !.pc = "baseline", !.k = 1,
                                                 !.sevenDaysAgo = NoTime,
                                                 !.computations = << >>]]
    /\ UNCHANGED << clock, ingestVars, scorerVars, baselineMetrics,
                    spikeLog, engineRuns, lastDetection, alerts >>

\* detectSpikes(): the select of the rows before the window is answered
ReadBaseline(e) ==
    /\ engine[e].pc = "baseline"
    /\ engine' = [engine EXCEPT ![e] =
           [@ EXCEPT !.pc = "today",
                     !.baselineCount =
                         BaselineCount(threatIntel, SpikeMetrics[engine[e].k], clock)]]
    /\ UNCHANGED << clock, ingestVars, scorerVars, riskScores, baselineMetrics,
                    spikeLog, engineRuns, lastDetection, alerts >>

\* detectSpikes(): the select of the rows of the last 24 hours is answered
ReadToday(e) ==
    /\ engine[e].pc = "today"
    /\ engine' = [engine EXCEPT ![e] =
           [@ EXCEPT !.pc = "upsert", !.currentValue = CurrentValue(threatIntel, clock)]]
    /\ UNCHANGED << clock, ingestVars, scorerVars, riskScores, baselineMetrics,
                    spikeLog, engineRuns, lastDetection, alerts >>

\* detectSpikes(): the upsert is applied, the spike condition is tested and
\* the loop moves on; after the last metric the run is over
UpsertBaseline(e) ==
    /\ engine[e].pc = "upsert"
    /\ LET run == engine[e]
           cfg == SpikeMetrics[run.k]
           detected == Append(run.detected, << run.baselineCount, run.currentValue >>)
       IN  /\ baselineMetrics' =
                 UpsertMetric(baselineMetrics, cfg, run.baselineCount, run.currentValue, clock)
           /\ spikeLog' = IF IsSpike(run.currentValue, run.baselineCount, cfg.windowDays)
                          THEN Append(spikeLog, cfg.metric) ELSE spikeLog
           /\ IF run.k = Len(SpikeMetrics)
              THEN /\ engine' = [engine EXCEPT ![e] = IdleEngine]
                   /\ lastDetection' = [ valid |-> TRUE, alone |-> run.alone,
                                         detected |-> detected ]
              ELSE /\ engine' = [engine EXCEPT ![e] =
                          [@ EXCEPT !.pc = "baseline", !.k = run.k + 1,
                                    !.detected = detected]]
                   /\ UNCHANGED lastDetection
    /\ UNCHANGED << clock, ingestVars, scorerVars, riskScores, engineRuns, alerts >>

(***************************************************************************)
(* server/storage.ts and server/routes.ts: alerts                          *)
(***************************************************************************)
\* storage.createAlert(alert): db.insert(alerts).values(alert).returning()
createAlert(table, alert) ==
    Append(table, [id |-> Len(table) + 1, read |-> FALSE] @@ alert)

\* POST /api/alerts with a body that passes insertAlertSchema; risk_score_id
\* is null or references a row of risk_scores
CreateAlert ==
    /\ Len(alerts) < MaxAlerts
    /\ \E riskScoreId \in {Null} \cup {riskScores[i].id : i \in 1..Len(riskScores)} :
          alerts' = createAlert(alerts,
              [ userId |-> "user-1", type |-> "threat", title |-> "t", message |-> "m",
                severity |-> "high", relatedId |-> Null,
                riskScoreId |-> riskScoreId, threatIntelId |-> Null ])
    /\ UNCHANGED << clock, ingestVars, scorerVars, riskScores, baselineMetrics,
                    spikeLog, engineRuns, engine, lastDetection >>

Next ==
    \/ initializeIngest
    \/ CronTick
    \/ ManualTrigger
    \/ \E r \in Slots : Fetch(r)
    \/ \E r \in Slots : CheckDuplicate(r)
    \/ \E r \in Slots : ApplyUpdate(r)
    \/ \E r \in Slots : ApplyInsert(r)
    \/ Tick

\* concurrent ingestion: the triggers of runAllIngestions arrive at any time
Spec == Init /\ [][Next]_vars

(***************************************************************************)
(* The whole pipeline: ingestion runs that are triggered one after the     *)
(* other, and the hourly risk-engine task.                                 *)
(***************************************************************************)
Quiet == \A r \in Slots : ~Active(r)

CronTickQuiet == Quiet /\ CronTick

ManualTriggerQuiet == Quiet /\ ManualTrigger

NextPipeline ==
    \/ initializeIngest
    \/ CronTickQuiet
    \/ ManualTriggerQuiet
    \/ \E r \in Slots : Fetch(r)
    \/ \E r \in Slots : CheckDuplicate(r)
    \/ \E r \in Slots : ApplyUpdate(r)
    \/ \E r \in Slots : ApplyInsert(r)
    \/ Tick
    \/ RiskEngineTick

SpecPipeline == Init /\ [][NextPipeline]_vars

(***************************************************************************)
(* Ingestion runs triggered one after the other, over feeds that answer    *)
(* with the usual payloads, with a threat listed twice, or with pulses     *)
(* that lack fields.                                                       *)
(***************************************************************************)
Feeds ==
    { [src \in 1..NumSources |-> Payloads(src)],
      [src \in 1..NumSources |-> ReorderedPayloads(src)],
      [src \in 1..NumSources |-> AmbiguousPayloads(src)] }

InitFeeds ==
    /\ booted = FALSE
    /\ registry = INGEST_SOURCES
    /\ storeUp = TRUE
    /\ silent = {}
    /\ upstream \in Feeds
    /\ clock = 0
    /\ threatIntel = << >>
    /\ runs = [r \in Slots |-> IdleRun]
    /\ started = 0
    /\ lastCompleted = NoRun
    /\ raced = {}
    /\ riskScores = << >>
    /\ baselineMetrics = << >>
    /\ spikeLog = << >>
    /\ engineRuns = 0
    /\ engine = [e \in EngineSlots |-> IdleEngine]
    /\ lastDetection = NoDetection
    /\ alerts = << >>
    /\ scoringInput = NoInput
    /\ scoringOutput = NoRisk
    /\ scoringSecond = NoSecond

NextFeeds ==
    \/ initializeIngest
    \/ CronTickQuiet
    \/ ManualTriggerQuiet
    \/ \E r \in Slots : Fetch(r)
    \/ \E r \in Slots : CheckDuplicate(r)
    \/ \E r \in Slots : ApplyUpdate(r)
    \/ \E r \in Slots : ApplyInsert(r)
    \/ Tick

SpecFeeds == InitFeeds /\ [][NextFeeds]_vars

(***************************************************************************)
(* Ingestion runs triggered one after the other while the environment      *)
(* misbehaves: the database goes away and comes back, a feed accepts the   *)
(* request and never answers, the registry lists a feed of another format. *)
(***************************************************************************)
InitFaults ==
    /\ booted = FALSE
    /\ registry \in { INGEST_SOURCES, INGEST_SOURCES \o << JsonSource >> }
    /\ storeUp = TRUE
    /\ silent \in { {}, {2} }
    /\ upstream = [src \in 1..NumSources |-> Payloads(src)]
    /\ clock = 0
    /\ threatIntel = << >>
    /\ runs = [r \in Slots |-> IdleRun]
    /\ started = 0
    /\ lastCompleted = NoRun
    /\ raced = {}
    /\ riskScores = << >>
    /\ baselineMetrics = << >>
    /\ spikeLog = << >>
    /\ engineRuns = 0
    /\ engine = [e \in EngineSlots |-> IdleEngine]
    /\ lastDetection = NoDetection
    /\ alerts = << >>
    /\ scoringInput = NoInput
    /\ scoringOutput = NoRisk
    /\ scoringSecond = NoSecond

NextFaults ==
    \/ initializeIngest
    \/ CronTickQuiet
    \/ ManualTriggerQuiet
    \/ \E r \in Slots : Fetch(r)
    \/ \E r \in Slots : CheckDuplicate(r)
    \/ \E r \in Slots : ApplyUpdate(r)
    \/ \E r \in Slots : ApplyInsert(r)
    \/ StoreFails
    \/ StoreRecovers
    \/ Tick

SpecFaults == InitFaults /\ [][NextFaults]_vars

\* the event loop runs the continuation of every promise that has settled:
\* a response that has arrived is processed, a database call that was
\* answered or rejected is resumed
SpecFaultsFair ==
    /\ SpecFaults
    /\ \A r \in Slots : WF_vars(Fetch(r))
    /\ \A r \in Slots : WF_vars(CheckDuplicate(r))
    /\ \A r \in Slots : WF_vars(ApplyUpdate(r))
    /\ \A r \in Slots : WF_vars(ApplyInsert(r))

(***************************************************************************)
(* The risk-engine task on its own, over a table that earlier ingestion    *)
(* runs have filled: runs of the task may overlap.                         *)
(***************************************************************************)
\* the threat_intel table after the pulses of `items` were ingested, each
\* at its time: items[i] = << pulse, time of ingestion >>
StoredRows(items) ==
    [i \in 1..Len(items) |-> [id |-> i] @@ normalizeOTXPulse(items[i][1], items[i][2])]

\* tables to run the engine over: empty; one row older than every window;
\* a fresh critical row with a row exactly 7 days old, or older than 7 days;
\* a row older than 30 days with a row of four days that every rule but
\* the decay applies to
SeededTables ==
    { StoredRows(<< >>),
      StoredRows(<< << PulseB, 0 - 800 >> >>),
      StoredRows(<< << PulseB, 0 - 168 >>, << PulseA, 0 >> >>),
      StoredRows(<< << PulseB, 0 - 200 >>, << PulseA, 0 >> >>),
      StoredRows(<< << PulseB, 0 - 800 >>, << PulseR, 0 - 100 >> >>) }

InitEngine ==
    /\ booted = FALSE
    /\ registry = INGEST_SOURCES
    /\ storeUp = TRUE
    /\ silent = {}
    /\ upstream = [src \in 1..NumSources |-> Payloads(src)]
    /\ clock = 0
    /\ threatIntel \in SeededTables
    /\ runs = [r \in Slots |-> IdleRun]
    /\ started = 0
    /\ lastCompleted = NoRun
    /\ raced = {}
    /\ riskScores = << >>
    /\ baselineMetrics = << >>
    /\ spikeLog = << >>
    /\ engineRuns = 0
    /\ engine = [e \in EngineSlots |-> IdleEngine]
    /\ lastDetection = NoDetection
    /\ alerts = << >>
    /\ scoringInput = NoInput
    /\ scoringOutput = NoRisk
    /\ scoringSecond = NoSecond

NextEngine ==
    \/ RiskEngineStart
    \/ \E e \in EngineSlots : SelectRecentIntel(e)
    \/ \E e \in EngineSlots : InsertScores(e)
    \/ \E e \in EngineSlots : ReadBaseline(e)
    \/ \E e \in EngineSlots : ReadToday(e)
    \/ \E e \in EngineSlots : UpsertBaseline(e)
    \/ Tick

SpecEngine == InitEngine /\ [][NextEngine]_vars

(***************************************************************************)
(* The risk-engine task over a table that holds a row with a malformed     *)
(* field, written by something other than the OTX normalizer.              *)
(***************************************************************************)
\* the row with a tag that is not a string
Malformed(row) == [row EXCEPT !.tags = << JsonNumber >>]

\* a fresh well-formed row and a fresh malformed one, in either order
MalformedTables ==
    LET rows == StoredRows(<< << PulseA, 0 >>, << PulseC, 0 >> >>)
    IN  { << rows[1], Malformed(rows[2]) >>,
          << Malformed(rows[1]), rows[2] >> }

InitMalformed ==
    /\ booted = FALSE
    /\ registry = INGEST_SOURCES
    /\ storeUp = TRUE
    /\ silent = {}
    /\ upstream = [src \in 1..NumSources |-> Payloads(src)]
    /\ clock = 0
    /\ threatIntel \in SeededTables \cup MalformedTables
    /\ runs = [r \in Slots |-> IdleRun]
    /\ started = 0
    /\ lastCompleted = NoRun
    /\ raced = {}
    /\ riskScores = << >>
    /\ baselineMetrics = << >>
    /\ spikeLog = << >>
    /\ engineRuns = 0
    /\ engine = [e \in EngineSlots |-> IdleEngine]
    /\ lastDetection = NoDetection
    /\ alerts = << >>
    /\ scoringInput = NoInput
    /\ scoringOutput = NoRisk
    /\ scoringSecond = NoSecond

SpecMalformed == InitMalformed /\ [][NextEngine]_vars

(***************************************************************************)
(* The alerts table: runs of the risk-engine task, one after the other,    *)
(* and clients that post alerts.                                           *)
(***************************************************************************)
NextAlerts ==
    \/ RiskEngineTick
    \/ CreateAlert
    \/ Tick

SpecAlerts == InitEngine /\ [][NextAlerts]_vars

(***************************************************************************)
(* detectSpikes over tables of many rows: so many before the windows, so   *)
(* many in the last 24 hours.                                              *)
(***************************************************************************)
\* the i-th of a series of distinct pulses
SeedPulse(i) ==
    [PulseB EXCEPT !.id = "s" \o ToString(i), !.name = "threat " \o ToString(i)]

\* a table of `older` rows discovered more than 30 days ago, `old` rows
\* discovered between 7 and 30 days ago and `today` rows discovered now
SeedTable(older, old, today) ==
    StoredRows([i \in 1..(older + old + today) |->
                   << SeedPulse(i),
                      IF i <= older THEN 0 - 800
                      ELSE IF i <= older + old THEN 0 - 200
                      ELSE 0 >>])

InitSpikes ==
    /\ booted = FALSE
    /\ registry = INGEST_SOURCES
    /\ storeUp = TRUE
    /\ silent = {}
    /\ upstream = [src \in 1..NumSources |-> Payloads(src)]
    /\ clock = 0
    /\ threatIntel \in { SeedTable(older, old, today) :
                           older \in {0, 30}, old \in {0, 40, 70}, today \in 0..MaxToday }
    /\ runs = [r \in Slots |-> IdleRun]
    /\ started = 0
    /\ lastCompleted = NoRun
    /\ raced = {}
    /\ riskScores = << >>
    /\ baselineMetrics = << >>
    /\ spikeLog = << >>
    /\ engineRuns = 0
    /\ engine = [e \in EngineSlots |-> IdleEngine]
    /\ lastDetection = NoDetection
    /\ alerts = << >>
    /\ scoringInput = NoInput
    /\ scoringOutput = NoRisk
    /\ scoringSecond = NoSecond

NextSpikes == RiskEngineTick

SpecSpikes == InitSpikes /\ [][NextSpikes]_vars

(***************************************************************************)
(* computeRisk on its own: any record, scored at any time.                 *)
(***************************************************************************)
SixIndicators == [i \in 1..6 |-> [type |-> "IPv4", value |-> "10.0.0." \o ToString(i)]]

\* the severity column is free text: the five known values and an unknown one
SeverityValues == {"critical", "high", "medium", "low", "info", "unknown"}

ScoredRecords ==
    { [ id |-> 1, title |-> t, description |-> Undefined, tags |-> << >>,
        severity |-> sev, indicators |-> inds, discoveredAt |-> 0 ] :
      t \in {"X", "ATM skimmer"}, sev \in SeverityValues,
      inds \in {<< >>, SixIndicators} }

InitScorer ==
    /\ booted = FALSE
    /\ registry = INGEST_SOURCES
    /\ storeUp = TRUE
    /\ silent = {}
    /\ upstream = [src \in 1..NumSources |-> Payloads(src)]
    /\ clock = 0
    /\ threatIntel = << >>
    /\ runs = [r \in Slots |-> IdleRun]
    /\ started = 0
    /\ lastCompleted = NoRun
    /\ raced = {}
    /\ riskScores = << >>
    /\ baselineMetrics = << >>
    /\ spikeLog = << >>
    /\ engineRuns = 0
    /\ engine = [e \in EngineSlots |-> IdleEngine]
    /\ lastDetection = NoDetection
    /\ alerts = << >>
    /\ scoringInput \in [record : ScoredRecords, now : 0..MaxAgeHours]
    /\ scoringOutput = NoRisk
    /\ scoringSecond = NoSecond

\* const risk = await computeRisk(intel)
ScoreRecord ==
    /\ scoringOutput = NoRisk
    /\ scoringOutput' = computeRisk(scoringInput.record, scoringInput.now)
    /\ UNCHANGED << clock, ingestVars, engineVars, scoringInput, scoringSecond >>

\* computeRisk(intel) is called again with the same record, some hours later:
\* the function takes the record only and reads the time with `new Date()`
ScoreAgain ==
    /\ scoringOutput # NoRisk
    /\ scoringSecond = NoSecond
    /\ \E wait \in AgeGaps :
          LET later == scoringInput.now + wait
          IN  scoringSecond' = [ record |-> scoringInput.record, now |-> later,
                                 risk |-> computeRisk(scoringInput.record, later) ]
    /\ UNCHANGED << clock, ingestVars, engineVars, scoringInput, scoringOutput >>

\* computeRisk(other) is called at the same time for a record that differs
\* in nothing but an older discoveredAt
ScoreOlder ==
    /\ scoringOutput # NoRisk
    /\ scoringSecond = NoSecond
    /\ \E gap \in AgeGaps :
          LET other == [scoringInput.record EXCEPT !.discoveredAt = @ - gap]
          IN  scoringSecond' = [ record |-> other, now |-> scoringInput.now,
                                 risk |-> computeRisk(other, scoringInput.now) ]
    /\ UNCHANGED << clock, ingestVars, engineVars, scoringInput, scoringOutput >>

NextScorer ==
    \/ ScoreRecord
    \/ ScoreAgain
    \/ ScoreOlder

SpecScorer == InitScorer /\ [][NextScorer]_vars

(***************************************************************************)
(* Properties.                                                             *)
(***************************************************************************)
\* every per-source log entry written so far, by runs in flight and by the
\* run that completed last
ReportEntries(report) == { report[k] : k \in 1..Len(report) }

AllEntries ==
    UNION { ReportEntries(runs[r].report) : r \in Slots }
    \cup ReportEntries(lastCompleted.report)

RowsWithHash(h) == { i \in 1..Len(threatIntel) : threatIntel[i].contentHash = h }

PendingInsert(r, h) ==
    /\ runs[r].pc = "insert"
    /\ runs[r].normalized[runs[r].idx].contentHash = h

\* C1: in every reachable state of the store, no two ThreatRecords have the
\* same contentHash, whatever runs (overlapping or not) and payloads
\* (repeating an item or not) have been ingested.
C1_UniqueContentHash ==
    \A i, j \in 1..Len(threatIntel) :
        i # j => threatIntel[i].contentHash # threatIntel[j].contentHash

\* two runs are over, one of them ingested a payload that repeats an item
C1_Witness ==
    /\ started = 2
    /\ \A r \in Slots : runs[r].pc = "idle"
    /\ \E e \in ReportEntries(lastCompleted.report) :
          /\ e.fetched = << PulseA2, PulseA >>
          /\ e.outcome = "ok"
          /\ e.duplicates >= 1
    /\ Len(threatIntel) = 2

\* C2: when two runs both found the same hash absent and both issued the
\* insert, exactly one row with that hash is stored once both inserts are
\* answered, and no run ends with the error escaping runAllIngestions.
C2_RaceOneRecordNoCrash ==
    /\ \A r \in Slots : runs[r].pc # "crashed"
    /\ \A h \in raced :
          (\A r \in Slots : ~PendingInsert(r, h)) => Cardinality(RowsWithHash(h)) = 1

\* both racing inserts have been answered: one stored the row, the other hit
\* the unique constraint
C2_Witness ==
    /\ \E h \in raced :
          /\ \A r \in Slots : ~PendingInsert(r, h)
          /\ Cardinality(RowsWithHash(h)) = 1
    /\ \E e \in AllEntries : e.lostRaces = 1
    /\ \A r \in Slots : runs[r].pc # "crashed"

\* C3 (as claimed): a source whose insert lost the race on the unique
\* constraint is logged as ingested, never as failed, the lost item is
\* counted as a duplicate and every item of the batch is processed.
C3_LostRaceCountsAsDuplicate ==
    \A e \in AllEntries :
        e.lostRaces > 0 =>
            /\ e.outcome = "ok"
            /\ e.inserted + e.duplicates = e.items

\* C4 (as claimed): no step lowers the lastSeen of a stored record.
C4_LastSeenNeverDecreases ==
    [][\A i \in 1..Len(threatIntel) :
          threatIntel'[i].lastSeen >= threatIntel[i].lastSeen]_vars

\* two runs met the same results of fetch, source by source
SameUpstream(reportA, reportB) ==
    /\ Len(reportA) = NumSources
    /\ Len(reportB) = NumSources
    /\ \A k \in 1..NumSources :
          /\ reportA[k].fetchOk = reportB[k].fetchOk
          /\ reportA[k].fetched = reportB[k].fetched

\* the run that completed last ran right after another completed run, with
\* no run overlapping either, and fetched what that run had fetched
RerunOverUnchangedData ==
    /\ lastCompleted.valid
    /\ lastCompleted.prevOk
    /\ SameUpstream(lastCompleted.prevReport, lastCompleted.report)

\* C5: a run started right after a completed run, over unchanged upstream
\* data, inserts nothing: every item it fetched is counted as a duplicate
\* and the table has as many rows after the run as before.
C5_RerunInsertsNothing ==
    RerunOverUnchangedData =>
        /\ \A e \in ReportEntries(lastCompleted.report) :
              /\ e.inserted = 0
              /\ e.fetchOk => e.outcome = "ok" /\ e.duplicates = Len(e.fetched)
        /\ lastCompleted.lenAtEnd = lastCompleted.lenAtStart

\* such a rerun has completed, over a payload of two items that the first
\* run had inserted
C5_Witness ==
    /\ RerunOverUnchangedData
    /\ lastCompleted.lenAtStart = 2
    /\ \E e \in ReportEntries(lastCompleted.report) : e.fetchOk /\ e.duplicates = 2
    /\ \E e \in ReportEntries(lastCompleted.prevReport) : e.inserted = 2

\* a record but for its lastSeen
ButLastSeen(row) == [row EXCEPT !.lastSeen = 0]

\* C6: no step of ingestion, scoring or spike detection deletes a stored
\* ThreatRecord or changes any of its fields but lastSeen; a repeat sighting
\* leaves title, description, type, severity, indicators, tags, firstSeen
\* and discoveredAt as they were.
C6_OnlyLastSeenChanges ==
    [][/\ Len(threatIntel') >= Len(threatIntel)
       /\ \A i \in 1..Len(threatIntel) :
             ButLastSeen(threatIntel'[i]) = ButLastSeen(threatIntel[i])]_vars

\* a repeat sighting with another severity and other tags than the stored
\* record has been applied, and the risk engine has run over the table
C6_Witness ==
    /\ engineRuns > 0
    /\ Len(riskScores) > 0
    /\ \E r \in Slots :
          /\ runs[r].pc = "dedup"
          /\ runs[r].idx = 2
          /\ runs[r].duplicates = 1
          /\ \E i \in 1..Len(threatIntel) :
                /\ threatIntel[i].contentHash = runs[r].normalized[1].contentHash
                /\ threatIntel[i].severity # runs[r].normalized[1].severity
                /\ threatIntel[i].tags # runs[r].normalized[1].tags

\* the content hash a feed item gets (the hash does not depend on the time)
HashOfPulse(pulse) == normalizeOTXPulse(pulse, 0).contentHash

\* the source of entry e went through the pipeline: it was fetched; what it
\* returned was normalized item by item; and unless an error of its own
\* ended it, every item was deduplicated and is stored
Processed(e) ==
    /\ e.fetchOk => e.items = Len(e.fetched)
    /\ e.error = "none" =>
          /\ e.outcome = "ok"
          /\ e.inserted + e.duplicates = e.items
          /\ \A k \in 1..Len(e.fetched) : RowsWithHash(HashOfPulse(e.fetched[k])) # {}

\* C7: a fetch failure is caught and confined to its source: no source is
\* fetched twice in a cycle, and a completed cycle has gone through every
\* source of the registry, the sources other than the failed one included.
C7_FetchFailureIsolated ==
    /\ \A r \in Slots : \A k \in 1..Len(runs[r].report) : runs[r].report[k].src = k
    /\ \A r \in Slots : runs[r].pc # "crashed"
    /\ lastCompleted.valid =>
          /\ Len(lastCompleted.report) = NumSources
          /\ \A k \in 1..NumSources : lastCompleted.report[k].src = k
          /\ \A f, e \in ReportEntries(lastCompleted.report) :
                (f.error = "fetch_error" /\ e.src # f.src) => Processed(e)

\* a cycle completed in which the first source failed to fetch and the
\* second was fetched and its item inserted
C7_Witness ==
    /\ lastCompleted.valid
    /\ lastCompleted.report[1].error = "fetch_error"
    /\ lastCompleted.report[2].outcome = "ok"
    /\ lastCompleted.report[2].inserted = 1
    /\ Len(threatIntel) = 1

\* C8 (as claimed): at no time are two ingestion runs active together.
C8_NoOverlappingRuns ==
    Cardinality({ r \in Slots : Active(r) }) <= 1

BucketOf(score) ==
    IF score >= 85 THEN "critical"
    ELSE IF score >= 70 THEN "high"
    ELSE IF score >= 40 THEN "medium"
    ELSE "low"

\* C10 (as claimed): the severity computeRisk returns is the bucket of the
\* score it returns.
C10_SeverityMatchesScore ==
    scoringOutput # NoRisk => scoringOutput.severity = BucketOf(scoringOutput.score)

\* C11 (as claimed): a second call of computeRisk with the same record
\* returns the same score, severity, rulesFired and reasoning as the first,
\* whatever the wall-clock time of the call.
C11_SameRecordSameResult ==
    (scoringSecond # NoSecond /\ scoringSecond.record = scoringInput.record)
        => scoringSecond.risk = scoringOutput

\* age of a scored record at the time of the call, in hours
AgeAt(record, now) == now - record.discoveredAt

\* the two calls were made at the same time for records that differ in
\* discoveredAt only, the second one strictly older, both beyond 30 days
OlderTwinScored ==
    /\ scoringSecond # NoSecond
    /\ scoringSecond.now = scoringInput.now
    /\ [scoringSecond.record EXCEPT !.discoveredAt = 0]
          = [scoringInput.record EXCEPT !.discoveredAt = 0]
    /\ scoringSecond.record.discoveredAt < scoringInput.record.discoveredAt
    /\ AgeAt(scoringInput.record, scoringInput.now) > DecayAfterDays * HoursPerDay
    /\ AgeAt(scoringSecond.record, scoringSecond.now) > DecayAfterDays * HoursPerDay

\* C12: of two records that differ in discoveredAt only, both more than 30
\* days old when scored, the older one never gets the higher score.
C12_OlderNeverScoresHigher ==
    OlderTwinScored => scoringSecond.risk.score <= scoringOutput.score

\* such a pair has been scored and the older record got the lower score
C12_Witness ==
    /\ OlderTwinScored
    /\ scoringSecond.risk.score < scoringOutput.score

\* the RiskScores of a ThreatRecord
ScoresOf(scores, threatIntelId) ==
    { i \in 1..Len(scores) : scores[i].threatIntelId = threatIntelId }

\* runs of the task whose computeAllRisks() is over
ScoringRunsDone(eng, nRuns) ==
    nRuns - Cardinality({ e \in EngineSlots : eng[e].pc \in {"select", "insertScores"} })

\* C13: a step leaves the RiskScores already stored as they are; the insert
\* of a scoring run appends exactly one RiskScore for each record of its
\* window and none for the others; and over the unchanged table, a record
\* still in the window has as many RiskScores as scoring runs are over.
C13_OneScorePerRecordPerRun ==
    [][/\ Len(riskScores') >= Len(riskScores)
       /\ \A i \in 1..Len(riskScores) : riskScores'[i] = riskScores[i]
       /\ \/ riskScores' = riskScores
          \/ \E e \in EngineSlots :
                /\ engine[e].pc = "insertScores"
                /\ engine'[e].pc = "baseline"
                /\ \A t \in 1..Len(threatIntel) :
                      Cardinality(ScoresOf(riskScores', threatIntel[t].id))
                        - Cardinality(ScoresOf(riskScores, threatIntel[t].id))
                      = IF threatIntel[t].discoveredAt >= engine[e].sevenDaysAgo
                        THEN 1 ELSE 0
       /\ \A t \in 1..Len(threatIntel') :
             threatIntel'[t].discoveredAt >= clock' - 7 * HoursPerDay
                 => Cardinality(ScoresOf(riskScores', threatIntel'[t].id))
                    = ScoringRunsDone(engine', engineRuns')]_vars

\* two runs that overlapped are over: the fresh record has two RiskScores,
\* the first of them as the first run wrote it, the old record has none
C13_Witness ==
    /\ engineRuns = 2
    /\ \A e \in EngineSlots : engine[e].pc = "idle"
    /\ lastDetection.valid /\ ~lastDetection.alone
    /\ Len(threatIntel) = 2
    /\ threatIntel[1].discoveredAt < clock - 7 * HoursPerDay
    /\ ScoresOf(riskScores, threatIntel[1].id) = {}
    /\ Cardinality(ScoresOf(riskScores, threatIntel[2].id)) = 2
    /\ riskScores[1].computedAt < riskScores[Len(riskScores)].computedAt

\* C14 (as claimed): no two Alerts reference the same RiskScore id.
C14_OneAlertPerRiskScore ==
    \A a, b \in 1..Len(alerts) :
        (a # b /\ alerts[a].riskScoreId # Null)
            => alerts[a].riskScoreId # alerts[b].riskScoreId

\* no run of the risk-engine task is in flight
EngineQuiet == \A e \in EngineSlots : engine[e].pc = "idle"

\* C15 (as claimed): once the run that appended it is over, a RiskScore with
\* score > 70 is referenced by exactly one Alert, which has its severity.
C15_HighScoreGetsAlert ==
    EngineQuiet =>
        \A i \in 1..Len(riskScores) :
            riskScores[i].score > 70 =>
                Cardinality({ a \in 1..Len(alerts) :
                                /\ alerts[a].riskScoreId = riskScores[i].id
                                /\ alerts[a].severity = riskScores[i].severity }) = 1

\* the console lines "SPIKE DETECTED" written for a metric
SpikeLines(metric) == { l \in 1..Len(spikeLog) : spikeLog[l] = metric }

\* C16: a run of detectSpikes writes a spike for a metric exactly when
\* currentValue > baselineValue * 1.5, where baselineValue is the number of
\* rows before the window over windowDays and currentValue the number of
\* rows of the last 24 hours; at baselineValue 10 a currentValue of 16
\* fires, 15 and less do not.
C16_SpikeIffAboveThreshold ==
    engineRuns >= 1 =>
        \A k \in 1..Len(SpikeMetrics) :
            LET windowDays == SpikeMetrics[k].windowDays
                before == Cardinality({ i \in 1..Len(threatIntel) :
                              threatIntel[i].discoveredAt < clock - windowDays * 24 })
                today == Cardinality({ i \in 1..Len(threatIntel) :
                              threatIntel[i].discoveredAt >= clock - 24 })
                fired == Cardinality(SpikeLines(SpikeMetrics[k].metric))
            IN  /\ fired = IF 2 * today * windowDays > 3 * before THEN engineRuns ELSE 0
                /\ before = 10 * windowDays => (fired > 0 <=> today >= 16)

\* detectSpikes has run over 70 rows older than 7 days (baselineValue 10)
\* and 16 rows of the last 24 hours, and has written the spike
C16_Witness ==
    /\ engineRuns >= 1
    /\ Cardinality({ i \in 1..Len(threatIntel) :
                       threatIntel[i].discoveredAt < clock - 7 * 24 }) = 70
    /\ Cardinality({ i \in 1..Len(threatIntel) :
                       threatIntel[i].discoveredAt >= clock - 24 }) = 16
    /\ SpikeLines("critical_severity_count") # {}
    /\ \E i \in 1..Len(baselineMetrics) :
          /\ baselineMetrics[i].metric = "critical_severity_count"
          /\ baselineMetrics[i].baselineValue = 1000

\* C17 (as claimed): once the run that detected it is over, every spike
\* written to the console has an Alert that names its metric.
C17_SpikeGetsAlert ==
    EngineQuiet =>
        \A l \in 1..Len(spikeLog) :
            \E a \in 1..Len(alerts) : alerts[a].relatedId = spikeLog[l]

\* C18: the baseline_metrics table never holds two rows for one metric
\* name, whatever runs of detectSpikes, overlapping or not, have written it.
C18_OneRowPerMetric ==
    \A i, j \in 1..Len(baselineMetrics) :
        i # j => baselineMetrics[i].metric # baselineMetrics[j].metric

\* two runs in flight together have both written the first metric
C18_Witness ==
    /\ \A e \in EngineSlots : engine[e].pc \in {"baseline", "today", "upsert"} /\ engine[e].k = 2
    /\ Len(baselineMetrics) = 1
    /\ baselineMetrics[1].metric = SpikeMetrics[1].metric

\* C19 (as claimed): after a run of detectSpikes that no other run
\* overlapped, the row of each metric holds the baselineValue and the
\* currentValue that run computed.
C19_StoredValuesAreTheRunsValues ==
    (lastDetection.valid /\ lastDetection.alone /\ EngineQuiet) =>
        \A k \in 1..Len(SpikeMetrics) :
            \E i \in 1..Len(baselineMetrics) :
                /\ baselineMetrics[i].metric = SpikeMetrics[k].metric
                /\ baselineMetrics[i].baselineValue
                     = ToDecimal2(lastDetection.detected[k][1], SpikeMetrics[k].windowDays)
                /\ baselineMetrics[i].currentValue
                     = ToDecimal2(lastDetection.detected[k][2], 1)

\* the indicators of a record, whatever their order
IndicatorBag(row) ==
    [ind \in { row.indicators[k] : k \in 1..Len(row.indicators) } |->
        Cardinality({ k \in 1..Len(row.indicators) : row.indicators[k] = ind })]

\* C20 (as claimed): no two stored ThreatRecords have the same title, the
\* same description and the same indicators in whatever order.
C20_OrderDoesNotSplitRecords ==
    \A i, j \in 1..Len(threatIntel) :
        (/\ threatIntel[i].title = threatIntel[j].title
         /\ threatIntel[i].description = threatIntel[j].description
         /\ IndicatorBag(threatIntel[i]) = IndicatorBag(threatIntel[j]))
            => i = j

\* the TLP values mapOTXSeverity has an entry for
MappedTLP == {"red", "amber", "green"}

\* C21: a missing source severity value and an unrecognized one normalize to
\* the same single default severity: any two items of OTX payloads whose TLP
\* is absent or outside the mapping table get the same severity.
C21_OneDefaultSeverity ==
    \A r, q \in Slots :
        \A i \in 1..Len(runs[r].normalized), j \in 1..Len(runs[q].normalized) :
            ( /\ registry[runs[r].src].type = "otx"
              /\ registry[runs[q].src].type = "otx"
              /\ runs[r].fetched[i].TLP \notin MappedTLP
              /\ runs[q].fetched[j].TLP \notin MappedTLP )
            => runs[r].normalized[i].severity = runs[q].normalized[j].severity

\* C22: if a call to the store fails during an ingestion run for a reason
\* other than a duplicate key, the run aborts: no run goes on after a source
\* that ended on such an error, so the error is the last entry of its report.
C22_StoreErrorAbortsRun ==
    /\ \A r \in Slots :
          \A k \in 1..Len(runs[r].report) :
              runs[r].report[k].error # "store_unreachable"
    /\ \A k \in 1..Len(lastCompleted.report) :
          lastCompleted.report[k].error = "store_unreachable"
              => k = Len(lastCompleted.report)

\* the items of a payload that carry no title
TitleLess(items) == { i \in 1..Len(items) : items[i].name = Undefined }

\* C23: an item of an OTX payload whose title is absent is skipped and counted
\* as an error, and only that item: no record is stored for it, and for the
\* source inserted + duplicates + errors equals the number of items fetched.
C23_TitleLessItemSkippedAndCounted ==
    \A e \in AllEntries :
        registry[e.src].type = "otx" /\ e.outcome = "ok" =>
            /\ e.inserted + e.duplicates + Cardinality(TitleLess(e.fetched)) = Len(e.fetched)
            /\ \A i \in TitleLess(e.fetched) :
                  \A k \in 1..Len(threatIntel) : threatIntel[k].sourceId # e.fetched[i].id

\* C24: a record on which computeRisk fails is the only one a run of
\* computeAllRisks skips: once a run of the task is over, every other record
\* of the trailing window has a RiskScore.
C24_OnlyFailingRecordSkipped ==
    (engineRuns >= 1 /\ EngineQuiet) =>
        \A t \in 1..Len(threatIntel) :
            ( /\ threatIntel[t].discoveredAt >= clock - 7 * HoursPerDay
              /\ ~computeRiskThrows(threatIntel[t]) )
            => ScoresOf(riskScores, threatIntel[t].id) # {}

\* C25: every ingestion run terminates: whatever the feeds do, a run that is
\* under way is eventually over (back to IDLE).
C25_EveryRunTerminates ==
    \A r \in Slots : (runs[r].pc # "idle") ~> (runs[r].pc = "idle")

\* the formats ingestFromSource has a branch for
BoundFormats == {"otx", "stix"}

\* C26: a source whose format has no bound normalizer is rejected when the
\* registry is loaded: no run is ever at such a source (fetching or
\* processing it) and no report has an entry, failed or empty, for it.
C26_UnboundFormatNeverFetched ==
    /\ \A r \in Slots : Active(r) => registry[runs[r].src].type \in BoundFormats
    /\ \A e \in AllEntries : registry[e.src].type \in BoundFormats

\* the line of the reasoning that a rule writes begins (or, for the indicator
\* rule, ends) with a text of its own
StartsWith(line, prefix) ==
    Len(line) >= Len(prefix) /\ SubSeq(line, 1, Len(prefix)) = prefix

EndsWith(line, suffix) ==
    Len(line) >= Len(suffix)
    /\ SubSeq(line, Len(line) - Len(suffix) + 1, Len(line)) = suffix

LineOfRule(line, rule) ==
    CASE rule = "severity_weighted" -> StartsWith(line, "Severity '")
      [] rule = "fintech_relevance" -> StartsWith(line, "Fintech-related")
      [] rule = "recency_decay" -> StartsWith(line, "Discovered ")
      [] rule = "high_indicator_count" -> EndsWith(line, " indicators detected: +10")
      [] OTHER -> FALSE

\* C27: computeRisk applies severity base, relevance bonus, recency decay,
\* indicator bonus and clamp in that order: the decay factor, never below
\* one half, multiplies the sum of base and relevance bonus only, the +10 of
\* the indicator rule is added after it undecayed, and rulesFired and the
\* lines of the reasoning list the fired rules in that order.
C27_RulesInFixedOrder ==
    scoringOutput # NoRisk =>
        LET rec == scoringInput.record
            ageHours == scoringInput.now - rec.discoveredAt
            base == CASE rec.severity = "critical" -> 80
                      [] rec.severity = "high" -> 60
                      [] rec.severity = "medium" -> 40
                      [] rec.severity = "low" -> 20
                      [] rec.severity = "info" -> 5
                      [] OTHER -> 0
            relevant == isFintechRelated(rec)
            decays == ageHours > 30 * 24
            \* the factor, in 4320ths: 1 - (days - 30) / 180
            linear == 4320 - (ageHours - 30 * 24)
            factor == IF ~decays THEN 4320 ELSE IF linear < 2160 THEN 2160 ELSE linear
            rich == Len(rec.indicators) > 5
            total == (base + (IF relevant THEN 20 ELSE 0)) * factor
                     + (IF rich THEN 10 * 4320 ELSE 0)
            clamped == IF total > 100 * 4320 THEN 100 * 4320 ELSE total
            fired == << "severity_weighted" >>
                     \o (IF relevant THEN << "fintech_relevance" >> ELSE << >>)
                     \o (IF decays THEN << "recency_decay" >> ELSE << >>)
                     \o (IF rich THEN << "high_indicator_count" >> ELSE << >>)
        IN  /\ 2 * factor >= 4320
            /\ 2 * 4320 * scoringOutput.score >= 2 * clamped - 4320
            /\ 2 * 4320 * scoringOutput.score <= 2 * clamped + 4320
            /\ scoringOutput.rulesFired = fired
            /\ Len(scoringOutput.reasoning) = Len(fired)
            /\ \A k \in 1..Len(fired) : LineOfRule(scoringOutput.reasoning[k], fired[k])

\* a record more than 30 days old, fintech-related and with six indicators
\* was scored: the four rules fired and the clamp did not cut the score
C27_Witness ==
    /\ scoringOutput # NoRisk
    /\ scoringOutput.rulesFired =
          << "severity_weighted", "fintech_relevance", "recency_decay", "high_indicator_count" >>
    /\ scoringInput.now - scoringInput.record.discoveredAt > 30 * 24
    /\ scoringInput.now - scoringInput.record.discoveredAt < 120 * 24
    /\ scoringOutput.score < 100

\* what computeContentHash serializes of a normalized threat
HashedFields(threat) == << threat.title, threat.description, threat.indicators >>

\* C28: the serialization hashed by computeContentHash is injective on
\* (title, description, indicators): two items a run has normalized that
\* differ in one of the three never carry the same contentHash.
C28_SerializationInjective ==
    \A r, q \in Slots :
        \A i \in 1..Len(runs[r].normalized), j \in 1..Len(runs[q].normalized) :
            HashedFields(runs[r].normalized[i]) # HashedFields(runs[q].normalized[j])
                => runs[r].normalized[i].contentHash # runs[q].normalized[j].contentHash

\* the record a RiskScore was computed for (the id of a row is its position)
RecordOf(score) == threatIntel[score.threatIntelId]

\* C29: in the batch path the recency-decay rule never fires: no RiskScore
\* appended by computeAllRisks has recency_decay in rulesFired, and its score
\* is the sum of the severity base and the two bonuses, cut at 100.
C29_BatchScoresNeverDecayed ==
    \A i \in 1..Len(riskScores) :
        LET rec == RecordOf(riskScores[i])
            sum == SeverityBase(rec.severity)
                   + (IF isFintechRelated(rec) THEN 20 ELSE 0)
                   + (IF Len(rec.indicators) > 5 THEN 10 ELSE 0)
        IN  /\ \A k \in 1..Len(riskScores[i].rulesFired) :
                  riskScores[i].rulesFired[k] # "recency_decay"
            /\ riskScores[i].score = IF sum > 100 THEN 100 ELSE sum

\* a run of the task is over, over a table with a record older than 30 days
\* and a record of four days: the latter has a RiskScore, cut at 100, the
\* former has none
C29_Witness ==
    /\ EngineQuiet
    /\ \E t \in 1..Len(threatIntel) :
          /\ clock - threatIntel[t].discoveredAt > DecayAfterDays * HoursPerDay
          /\ ScoresOf(riskScores, threatIntel[t].id) = {}
    /\ \E i \in 1..Len(riskScores) :
          /\ clock - RecordOf(riskScores[i]).discoveredAt >= 4 * HoursPerDay
          /\ Len(RecordOf(riskScores[i]).indicators) > 5
          /\ riskScores[i].score = 100

\* C30: every persisted ThreatRecord has firstSeen <= lastSeen, when it is
\* inserted and after any number of repeat sightings.
C30_FirstSeenNotAfterLastSeen ==
    \A k \in 1..Len(threatIntel) : threatIntel[k].firstSeen <= threatIntel[k].lastSeen

====
